---- MODULE Spec2Model ----
(***************************************************************************)
(* State-machine model of the RAG backend: chunk storage (MongoDB          *)
(* "chunks" collection), the vector store provider (QdrantDBProvider),     *)
(* the NLP controller (index / search / answer) and the HTTP handlers that *)
(* drive them (push_endpoint, process_one_file, process_all_files).        *)
(*                                                                         *)
(* push_endpoint is a coroutine: the event loop can run other handlers at  *)
(* every `await`.  Its only await inside the paging loop is the page       *)
(* fetch, so one run is the step sequence                                  *)
(*    PushStart ; (PushFetch ; PushIndex)* ; done                          *)
(* and other handlers interleave between these steps.                      *)
(*                                                                         *)
(* The handlers build NLPController without its templete_parser argument;  *)
(* the model takes the controller as constructed and follows the handler   *)
(* bodies from there.  Calls into the store, the embedding client and the  *)
(* generation client are modelled by their effect, with the failures the   *)
(* code catches (a raising upload, delete or search) as inputs.            *)
(***************************************************************************)
EXTENDS Integers, Sequences, FiniteSets, TLC

\* ------------------------------------------------------------------ bounds
\* total number of chunk documents ever inserted (ObjectIds handed out)
MaxChunkId == 3
\* largest `page` value a push request carries (0 stands for None / absent)
MaxPageInput == 2
\* largest `page_size` value a push request carries (0 stands for None)
MaxPageSizeInput == 2
\* insert_many's batch_size (50 in the source), scaled so that a page of the
\* model is cut into more than one batch
BatchSize == 1
\* largest `limit` of a search / answer request
MaxLimit == 2
\* longest text handed to the text splitter, in characters
MaxTextLen == 4
\* largest chunk_size the text splitter is built with
MaxChunkSize == 3
\* the providers' default_input_max_characters, counted in rendered lines
\* and scaled so that a prompt of the model can be longer
InputMaxLines == 2

\* ------------------------------------------------------- program constants
DefaultPageSize == 100
PageSizeCap == 1000
\* EMBEDDING_MODEL_SIZE of the settings the application starts with
EMBEDDING_MODEL_SIZE == 3

\* ------------------------------------------------------------ environment
Projects == {"p1", "p2"}
Workers == {"w1", "w2"}
\* the project and the request stream of the single-project specifications
OneProject == {"p1"}
OneWorker == {"w1"}
\* LLMEnums: the providers the factory builds
Backends == {"COHERE", "OPENAI"}
\* embedding sizes a deployment is configured with
EmbeddingSizes == {EMBEDDING_MODEL_SIZE, EMBEDDING_MODEL_SIZE + 1}
\* files of a project directory and the chunks the text splitter cuts them
\* into; "bad" is a file whose loading or chunking raises
Files == {"f1", "f2", "bad"}
Queries == {"a", "b"}

VARIABLES
    chunks,     \* MongoDB "chunks" collection, in natural (insertion) order
    nextId,     \* next ObjectId MongoDB hands out
    vdb,        \* vector store: collection name -> collection
    run,        \* worker -> state of its push_endpoint coroutine
    ingest,     \* project -> process_one_file coroutine between delete and insert
    resp,       \* outcome of the last search / answer / ingestion call
    settings,   \* configuration the application was started with
    projects,   \* MongoDB "projects" collection: project_id -> its document
    calls       \* worker -> state of its ProjectModel coroutine

vars == <<chunks, nextId, vdb, run, ingest, resp, settings, projects, calls>>

\* embedding_client.embedding_size, set at startup from the settings
embedding_size == settings.EMBEDDING_SIZE

\* ------------------------------------------------------------ list helpers
Max(a, b) == IF a >= b THEN a ELSE b
Min(a, b) == IF a <= b THEN a ELSE b
\* Python's `x or d` on an Optional[int]: None and 0 are both falsy
OrDefault(x, d) == IF x = 0 THEN d ELSE x

RECURSIVE SelectSeqBy(_, _)
SelectSeqBy(s, pid) ==
    IF s = <<>> THEN <<>>
    ELSE IF Head(s).chunk_project_id = pid
         THEN <<Head(s)>> \o SelectSeqBy(Tail(s), pid)
         ELSE SelectSeqBy(Tail(s), pid)

Range(s) == {s[i] : i \in 1..Len(s)}
Slice(s, from, to) == [i \in 1..Max(to - from + 1, 0) |-> s[from + i - 1]]

\* ------------------------------------------------------------- chunker
\* RecursiveCharacterTextSplitter output for each readable file
process_document(f) ==
    CASE f = "f1" -> <<"a", "b">>
      [] f = "f2" -> <<"c">>
      [] OTHER -> <<>>

Raises(f) == f = "bad"
\* str(e) of the exception process_document raises on f
ErrorOf(f) == <<"ValueError", f>>

\* ------------------------------------------------------------ ChunkModel
ChunkSchema(id, text, meta, order, pid) ==
    [id |-> id, chunk_text |-> text, chunk_metadata |-> meta,
     chunk_order |-> order, chunk_project_id |-> pid]

\* file_chunks of process_one_file / process_all_files: order = idx + 1 over
\* the list that is enumerated; ids are assigned by insert_many_chunks
file_chunks(docs, pid, firstId) ==
    [i \in 1..Len(docs) |->
        ChunkSchema(firstId + i - 1, docs[i].text, docs[i].source, i, pid)]

Documents(f) ==
    [i \in 1..Len(process_document(f)) |->
        [text |-> process_document(f)[i], source |-> f]]

insert_many_chunks(coll, new) == coll \o new

\* only the first chunk of the project is deleted
del_chunks_by_project_id_first_only(coll, pid) ==
    IF \E i \in 1..Len(coll) : coll[i].chunk_project_id = pid
    THEN LET k == CHOOSE i \in 1..Len(coll) :
                    /\ coll[i].chunk_project_id = pid
                    /\ \A j \in 1..(i - 1) : coll[j].chunk_project_id # pid
         IN  Slice(coll, 1, k - 1) \o Slice(coll, k + 1, Len(coll))
    ELSE coll

RECURSIVE del_chunks_by_project_id(_, _)
del_chunks_by_project_id(coll, pid) ==
    IF coll = <<>> THEN <<>>
    ELSE IF Head(coll).chunk_project_id = pid
         THEN del_chunks_by_project_id(Tail(coll), pid)
         ELSE <<Head(coll)>> \o del_chunks_by_project_id(Tail(coll), pid)

get_project_chunks_paginated_skips_a_page(coll, pid, page, page_size) ==
    LET skip == page * page_size
        found == SelectSeqBy(coll, pid)
    IN  Slice(found, skip + 1, Min(skip + page_size, Len(found)))

get_project_chunks_paginated(coll, pid, page, page_size) ==
    LET skip == (page - 1) * page_size
        found == SelectSeqBy(coll, pid)
    IN  Slice(found, skip + 1, Min(skip + page_size, Len(found)))

\* ------------------------------------------------------- embedding client
\* document_type is not read: every text is embedded as a document
CoHereProvider_embed_text_one_mode(text, document_type) ==
    [text |-> text, input_type |-> "search_document"]

\* CoHereProvider.embed_text: the vector depends on the processed text and on
\* the input_type selected from document_type
CoHereProvider_embed_text(text, document_type) ==
    [text |-> text,
     input_type |-> IF document_type = "query" THEN "search_query"
                    ELSE "search_document"]

\* OpenAIProvider.embed_text: document_type is not read, the API has one
\* embedding space
OpenAIProvider_embed_text(text, document_type) ==
    [text |-> text, input_type |-> "none"]

\* embedding_client is the provider the factory built for EMBEDDING_BACKEND
embed_text(text, document_type) ==
    IF settings.EMBEDDING_BACKEND = "OPENAI"
    THEN OpenAIProvider_embed_text(text, document_type)
    ELSE CoHereProvider_embed_text(text, document_type)

\* ------------------------------------------------------- QdrantDBProvider
\* the name does not depend on the project id
create_collection_name_shared(project_id) == <<"collection_", "p1">>

\* f"collection_{project_id}".strip(): project ids are ObjectIds, which hold
\* no white space for strip() to remove
create_collection_name(project_id) == <<"collection_", project_id>>

CollectionNames == {create_collection_name(p) : p \in Projects}

NoCollection == [exists |-> FALSE, size |-> 0, points |-> <<>>]

is_collection_existed(db, name) == db[name].exists

\* client.delete_collection raising is swallowed by the except branch
delete_collection(db, name, raises) ==
    IF raises THEN db
    ELSE IF is_collection_existed(db, name)
         THEN [db EXCEPT ![name] = NoCollection]
         ELSE db

\* the existence test is dropped: the collection is created on every call
create_collection_always(db, name, size, do_reset, raises) ==
    [db EXCEPT ![name] = [exists |-> TRUE, size |-> size, points |-> <<>>]]

create_collection(db, name, size, do_reset, raises) ==
    LET d1 == IF do_reset /\ is_collection_existed(db, name)
              THEN delete_collection(db, name, raises) ELSE db
    IN  IF ~is_collection_existed(d1, name)
        THEN [d1 EXCEPT ![name] = [exists |-> TRUE, size |-> size, points |-> <<>>]]
        ELSE d1

Record(id, vector, payload) == [id |-> id, vector |-> vector, payload |-> payload]

IndexOfId(points, id) ==
    IF \E i \in 1..Len(points) : points[i].id = id
    THEN CHOOSE i \in 1..Len(points) : points[i].id = id
    ELSE 0

\* the store's upsert of one record: overwrite the point with the same id,
\* otherwise add a point.  A collection has no order of its own; the points
\* are listed by ascending id
InsertById(points, rec) ==
    LET k == Cardinality({i \in 1..Len(points) : points[i].id <= rec.id})
    IN  Slice(points, 1, k) \o <<rec>> \o Slice(points, k + 1, Len(points))

UpsertAlwaysAdds(points, rec) == InsertById(points, rec)

Upsert(points, rec) ==
    IF IndexOfId(points, rec.id) # 0
    THEN [points EXCEPT ![IndexOfId(points, rec.id)] = rec]
    ELSE InsertById(points, rec)

RECURSIVE upload_records(_, _)
upload_records(points, records) ==
    IF records = <<>> THEN points
    ELSE upload_records(Upsert(points, Head(records)), Tail(records))

NumBatches(n) == (n + BatchSize - 1) \div BatchSize

\* insert_many: the loop over range(0, total_records, batch_size); the upload
\* of batch number failAt raises (0: no upload raises) and the loop returns
\* False there, keeping what the earlier batches stored
RECURSIVE InsertBatches(_, _, _, _, _)
InsertBatches(points, records, start_idx, batchNo, failAt) ==
    IF start_idx >= Len(records) THEN [points |-> points, ok |-> TRUE]
    ELSE IF batchNo = failAt THEN [points |-> points, ok |-> FALSE]
    ELSE LET end_idx == Min(start_idx + BatchSize, Len(records))
             batch_records == Slice(records, start_idx + 1, end_idx)
         IN  InsertBatches(upload_records(points, batch_records), records,
                           end_idx, batchNo + 1, failAt)

\* record i is built with the vector of the record after it
insert_many_shifted(db, name, vectors, metadata, record_ids, failAt) ==
    IF ~is_collection_existed(db, name) THEN [db |-> db, ok |-> FALSE]
    ELSE LET records == [i \in 1..Len(vectors) |->
                            Record(record_ids[i],
                                   vectors[(i % Len(vectors)) + 1], metadata[i])]
             r == InsertBatches(db[name].points, records, 0, 1, failAt)
         IN  [db |-> [db EXCEPT ![name].points = r.points], ok |-> r.ok]

insert_many(db, name, vectors, metadata, record_ids, failAt) ==
    IF ~is_collection_existed(db, name) THEN [db |-> db, ok |-> FALSE]
    ELSE LET records == [i \in 1..Len(vectors) |->
                            Record(record_ids[i], vectors[i], metadata[i])]
             r == InsertBatches(db[name].points, records, 0, 1, failAt)
         IN  [db |-> [db EXCEPT ![name].points = r.points], ok |-> r.ok]

\* --------------------------------------------------------- NLPController
reset_vector_db_collection(db, pid, raises) ==
    LET collection_name == create_collection_name(pid)
    IN  create_collection(delete_collection(db, collection_name, raises),
                          collection_name, embedding_size, FALSE, FALSE)

\* the records are uploaded without the chunk ids: the store numbers them
index_into_vector_db_without_ids(db, pid, chunk_list, chunk_ids, failAt) ==
    LET collection_name == create_collection_name(pid)
        d1 == create_collection(db, collection_name, embedding_size, FALSE, FALSE)
        n == Min(Len(chunk_list), Len(chunk_ids))
        vectors == [i \in 1..n |-> embed_text(chunk_list[i].chunk_text, "document")]
        metadatas == [i \in 1..n |->
                        [chunk_project_id |-> pid,
                         chunk_text |-> chunk_list[i].chunk_text,
                         chunk_order |-> chunk_list[i].chunk_order,
                         chunk_metadata |-> chunk_list[i].chunk_metadata]]
        fresh == [i \in 1..n |-> 100 + 10 * Len(d1[collection_name].points) + i]
        r == insert_many(d1, collection_name, vectors, metadatas, fresh, failAt)
    IN  [db |-> r.db, inserted |-> r.ok, indexed_count |-> Len(chunk_list)]

index_into_vector_db(db, pid, chunk_list, chunk_ids, failAt) ==
    LET collection_name == create_collection_name(pid)
        d1 == create_collection(db, collection_name, embedding_size, FALSE, FALSE)
        n == Min(Len(chunk_list), Len(chunk_ids))
        vectors == [i \in 1..n |-> embed_text(chunk_list[i].chunk_text, "document")]
        metadatas == [i \in 1..n |->
                        [chunk_project_id |-> pid,
                         chunk_text |-> chunk_list[i].chunk_text,
                         chunk_order |-> chunk_list[i].chunk_order,
                         chunk_metadata |-> chunk_list[i].chunk_metadata]]
        r == insert_many(d1, collection_name, vectors, metadatas, chunk_ids, failAt)
    IN  [db |-> r.db, inserted |-> r.ok, indexed_count |-> Len(chunk_list)]

\* ------------------------------------------------------ similarity search
\* Python values that are either None or a list
\* what a call hands back: None, a list, or an exception that propagates
None == [kind |-> "none", items |-> <<>>]
List(items) == [kind |-> "list", items |-> items]
Raised == [kind |-> "raise", items |-> <<>>]
\* Python's truth value of a returned value: None and [] are falsy
Falsy(v) == v.kind = "none" \/ (v.kind = "list" /\ v.items = <<>>)
\* a text that is absent
NoText == "None"

Coord(text) == CASE text = "a" -> 1 [] text = "b" -> 2 [] OTHER -> 3

\* the distance metric of the store on the model's vectors: the closer the
\* texts, the higher the score; the two embedding spaces are one apart
Score(query_vector, vector) ==
    LET d == Coord(query_vector.text) - Coord(vector.text)
    IN  10 - 2 * (IF d < 0 THEN 0 - d ELSE d)
           - (IF query_vector.input_type = vector.input_type THEN 1 ELSE 0)

ScoredPoint(rec, query_vector) ==
    [id |-> rec.id, score |-> Score(query_vector, rec.vector), payload |-> rec.payload]

\* client.search: the points by descending score (equal scores by position),
\* cut at limit
RECURSIVE Ranked(_, _, _)
Ranked(points, idxs, query_vector) ==
    IF idxs = {} THEN <<>>
    ELSE LET best == CHOOSE i \in idxs : \A j \in idxs :
                        \/ Score(query_vector, points[i].vector)
                             > Score(query_vector, points[j].vector)
                        \/ /\ Score(query_vector, points[i].vector)
                                = Score(query_vector, points[j].vector)
                           /\ i <= j
         IN  <<ScoredPoint(points[best], query_vector)>>
                \o Ranked(points, idxs \ {best}, query_vector)

client_search(points, query_vector, limit) ==
    LET all == Ranked(points, 1..Len(points), query_vector)
    IN  Slice(all, 1, Min(limit, Len(all)))

search_by_vector_unguarded(db, name, vector, limit, raises) ==
    IF ~is_collection_existed(db, name) \/ raises THEN Raised
    ELSE List(client_search(db[name].points, vector, limit))

search_by_vector(db, name, vector, limit, raises) ==
    IF ~is_collection_existed(db, name) THEN None
    ELSE IF raises THEN None
    ELSE List(client_search(db[name].points, vector, limit))

\* the caller's limit is dropped and the default of the signature is used
search_vector_db_default_limit(db, pid, text, limit, raises) ==
    LET collection_name == create_collection_name(pid)
        query_embedding == embed_text(text, "query")
    IN  search_by_vector(db, collection_name, query_embedding, 5, raises)

search_vector_db(db, pid, text, limit, raises) ==
    LET collection_name == create_collection_name(pid)
        query_embedding == embed_text(text, "query")
    IN  search_by_vector(db, collection_name, query_embedding, limit, raises)

\* ------------------------------------------------------------ prompt parts
\* templete_parser.get(group, key, vars): the template named by key with its
\* variables substituted
template(key, variables) == [template |-> key, vars |-> variables]

\* process_text: the text is cut at default_input_max_characters; strip
\* takes white space off its ends and no rendered line
process_text(text) == Slice(text, 1, Min(Len(text), InputMaxLines))

construct_prompt(prompt, role) == [role |-> role, content |-> process_text(prompt)]

\* generate_text: the conversation that the generation backend receives, the
\* chat_history followed by the user message built from the prompt
generate_text(prompt, chat_history) ==
    chat_history \o <<construct_prompt(prompt, "user")>>

documents_prompt_zero_based(search_results) ==
    [idx \in 1..Len(search_results) |->
        template("document_prompt",
                 [doc_num |-> idx - 1,
                  chunk_text |-> search_results[idx].payload.chunk_text])]

\* "\n".join(parts): a text is the sequence of its rendered lines
documents_prompt(search_results) ==
    [idx \in 1..Len(search_results) |->
        template("document_prompt",
                 [doc_num |-> (idx - 1) + 1,
                  chunk_text |-> search_results[idx].payload.chunk_text])]

\* `if not search_results`
no_results_only_none(search_results) == search_results.kind = "none"

no_results(search_results) == Falsy(search_results)

\* the arguments of the one generate_text call of an answer (None: no call)
NotSent == [prompt |-> None, chat_history |-> None, messages |-> None]

\* the user message is put into the history that is sent and returned
answer_rag_question_user_in_history(db, pid, query, limit, raises, generated) ==
    LET search_results == search_vector_db(db, pid, query, limit, raises)
    IN  IF search_results.kind = "raise"
        THEN [answer |-> NoText, full_prompt |-> Raised, chat_history |-> Raised,
              generate_calls |-> 0, sent |-> NotSent]
        ELSE IF no_results(search_results)
        THEN [answer |-> NoText, full_prompt |-> None, chat_history |-> None,
              generate_calls |-> 0, sent |-> NotSent]
        ELSE LET system_prompt == <<template("system_prompt", <<>>)>>
                 footer_prompt == template("footer_prompt", [query |-> query])
                 system_message == construct_prompt(system_prompt, "system")
                 full_prompt == documents_prompt(search_results.items)
                                    \o <<footer_prompt>>
                 chat_history == <<system_message,
                                   construct_prompt(full_prompt, "user")>>
             IN  [answer |-> generated, full_prompt |-> List(full_prompt),
                  chat_history |-> List(chat_history), generate_calls |-> 1,
                  sent |-> [prompt |-> List(full_prompt),
                            chat_history |-> List(chat_history),
                            messages |->
                                List(generate_text(full_prompt, chat_history))]]

\* answer_rag_question: generated is what the generation client returns when
\* it is called; sent holds the prompt and chat_history of that call
answer_rag_question(db, pid, query, limit, raises, generated) ==
    LET search_results == search_vector_db(db, pid, query, limit, raises)
    IN  IF search_results.kind = "raise"
        THEN [answer |-> NoText, full_prompt |-> Raised, chat_history |-> Raised,
              generate_calls |-> 0, sent |-> NotSent]
        ELSE IF no_results(search_results)
        THEN [answer |-> NoText, full_prompt |-> None, chat_history |-> None,
              generate_calls |-> 0, sent |-> NotSent]
        ELSE LET system_prompt == <<template("system_prompt", <<>>)>>
                 footer_prompt == template("footer_prompt", [query |-> query])
                 system_message == construct_prompt(system_prompt, "system")
                 chat_history == <<system_message>>
                 full_prompt == documents_prompt(search_results.items)
                                    \o <<footer_prompt>>
             IN  [answer |-> generated, full_prompt |-> List(full_prompt),
                  chat_history |-> List(chat_history), generate_calls |-> 1,
                  sent |-> [prompt |-> List(full_prompt),
                            chat_history |-> List(chat_history),
                            messages |->
                                List(generate_text(full_prompt, chat_history))]]

\* ------------------------------------------------------------ state space
IdleRun ==
    [pc |-> "idle", pid |-> "p1", do_reset |-> FALSE, start |-> 1, page_no |-> 1,
     page_size |-> 1, total_indexed |-> 0, chunk_list |-> <<>>,
     outcome |-> "none",
     \* history of the run, written by no handler and read by none
     failed |-> FALSE, afterFail |-> FALSE, stored |-> 0, disturbed |-> FALSE,
     stale |-> {}, pages |-> 0, again |-> FALSE, before |-> 0,
     recovering |-> FALSE, next_at_start |-> 1]

NoResp == [op |-> "none"]

\* a worker with no ProjectModel call in flight
IdleCall ==
    [pc |-> "idle", op |-> "none", project_id |-> "p1", deleted_chunks |-> 0]

StartSettings ==
    [EMBEDDING_BACKEND |-> "COHERE", EMBEDDING_SIZE |-> EMBEDDING_MODEL_SIZE]

Init ==
    /\ chunks = <<>>
    /\ nextId = 1
    /\ vdb = [n \in CollectionNames |-> NoCollection]
    /\ run = [w \in Workers |-> IdleRun]
    /\ ingest = [p \in Projects |-> "none"]
    /\ resp = NoResp
    /\ settings = StartSettings
    /\ projects = [p \in Projects |-> "present"]
    /\ calls = [w \in Workers |-> IdleCall]

Active(w) == run[w].pc \in {"fetch", "index"}

ChunkIds(coll, pid) == {c.id : c \in Range(SelectSeqBy(coll, pid))}
PointIds(db, pid) == {r.id : r \in Range(db[create_collection_name(pid)].points)}

\* a write to the chunks of pid after a push run over pid has started
DisturbRuns(pid) ==
    [w \in Workers |->
        IF run[w].pc # "idle" /\ run[w].pid = pid
        THEN [run[w] EXCEPT !.disturbed = TRUE] ELSE run[w]]

\* --------------------------------------------------------------- data routes
\* process_one_file without do_reset: chunk the file, insert its chunks
ProcessOne(p, f) ==
    LET docs == Documents(f) IN
    /\ ~Raises(f)
    /\ docs # <<>>
    /\ nextId + Len(docs) - 1 <= MaxChunkId
    /\ chunks' = insert_many_chunks(chunks, file_chunks(docs, p, nextId))
    /\ nextId' = nextId + Len(docs)
    /\ run' = DisturbRuns(p)
    /\ UNCHANGED <<vdb, ingest, resp, settings, projects, calls>>

\* process_one_file with do_reset, up to the await after the delete
ProcessOneReset(p, f) ==
    /\ ingest[p] = "none"
    /\ ~Raises(f)
    /\ Documents(f) # <<>>
    /\ chunks' = del_chunks_by_project_id(chunks, p)
    /\ ingest' = [ingest EXCEPT ![p] = f]
    /\ run' = DisturbRuns(p)
    /\ UNCHANGED <<nextId, vdb, resp, settings, projects, calls>>

\* process_one_file with do_reset, the insert that follows the delete
ProcessOneInsert(p) ==
    LET docs == Documents(ingest[p]) IN
    /\ ingest[p] # "none"
    /\ nextId + Len(docs) - 1 <= MaxChunkId
    /\ chunks' = insert_many_chunks(chunks, file_chunks(docs, p, nextId))
    /\ nextId' = nextId + Len(docs)
    /\ ingest' = [ingest EXCEPT ![p] = "none"]
    /\ run' = DisturbRuns(p)
    /\ UNCHANGED <<vdb, resp, settings, projects, calls>>

\* all_chunks of process_all_files: the chunks of every file that did not
\* raise, in directory order
RECURSIVE all_chunks(_)
all_chunks(all_files) ==
    IF all_files = <<>> THEN <<>>
    ELSE (IF Raises(Head(all_files)) THEN <<>> ELSE Documents(Head(all_files)))
         \o all_chunks(Tail(all_files))

RECURSIVE failed_files(_)
failed_files(all_files) ==
    IF all_files = <<>> THEN <<>>
    ELSE (IF Raises(Head(all_files))
          THEN <<[file |-> Head(all_files), error |-> ErrorOf(Head(all_files))]>>
          ELSE <<>>)
         \o failed_files(Tail(all_files))

Directories == {<<f>> : f \in Files} \cup
               {d \in {<<f, g>> : f \in Files, g \in Files} : d[1] # d[2]}

\* a file that fails ends the run: nothing is inserted
process_all_files_aborts(coll, pid, all_files, firstId) ==
    LET docs == all_chunks(all_files)
        failed == failed_files(all_files)
    IN  IF all_files = <<>>
        THEN [chunks |-> coll, status |-> "no_files_found",
              failed_files |-> <<>>, inserted_chunks |-> 0]
        ELSE IF docs = <<>> \/ failed # <<>>
        THEN [chunks |-> coll, status |-> "processing_failed",
              failed_files |-> failed, inserted_chunks |-> 0]
        ELSE [chunks |-> insert_many_chunks(coll, file_chunks(docs, pid, firstId)),
              status |-> "processing_success",
              failed_files |-> failed, inserted_chunks |-> Len(docs)]

\* process_all_files from the directory listing on: the chunks collection it
\* leaves and the response it sends
process_all_files(coll, pid, all_files, firstId) ==
    LET docs == all_chunks(all_files)
        failed == failed_files(all_files)
    IN  IF all_files = <<>>
        THEN [chunks |-> coll, status |-> "no_files_found",
              failed_files |-> <<>>, inserted_chunks |-> 0]
        ELSE IF docs = <<>>
        THEN [chunks |-> coll, status |-> "processing_failed",
              failed_files |-> failed, inserted_chunks |-> 0]
        ELSE [chunks |-> insert_many_chunks(coll, file_chunks(docs, pid, firstId)),
              status |-> "processing_success",
              failed_files |-> failed, inserted_chunks |-> Len(docs)]

ProcessAll(p, all_files) ==
    LET docs == all_chunks(all_files) IN
    /\ docs # <<>>
    /\ nextId + Len(docs) - 1 <= MaxChunkId
    /\ chunks' = insert_many_chunks(chunks, file_chunks(docs, p, nextId))
    /\ nextId' = nextId + Len(docs)
    /\ run' = DisturbRuns(p)
    /\ UNCHANGED <<vdb, ingest, resp, settings, projects, calls>>

\* process_all_files with the response it sends, over any directory
ProcessAllCall(p, all_files) ==
    LET r == process_all_files(chunks, p, all_files, nextId) IN
    /\ nextId + r.inserted_chunks - 1 <= MaxChunkId
    /\ chunks' = r.chunks
    /\ nextId' = nextId + r.inserted_chunks
    /\ run' = IF r.inserted_chunks > 0 THEN DisturbRuns(p) ELSE run
    /\ resp' = [op |-> "processall", pid |-> p, all_files |-> all_files,
                status |-> r.status, failed_files |-> r.failed_files,
                inserted_chunks |-> r.inserted_chunks]
    /\ UNCHANGED <<vdb, ingest, settings, projects, calls>>

\* ------------------------------------------------------------ push_endpoint
\* the request repeats, without reset, a push of worker w that indexed every
\* page of the same chunks
Again(w, p, do_reset) ==
    /\ ~do_reset
    /\ run[w].pc = "done" /\ run[w].outcome = "push_successful_200"
    /\ run[w].pid = p /\ run[w].start = 1
    /\ ~run[w].failed /\ ~run[w].disturbed

\* lines 29-44: controller, optional reset, page_no / page_size / total_indexed
\* mark is written into the run's history and read by no handler
PushStartMarked(w, p, do_reset, page, page_size, raises, mark) ==
    /\ run[w].pc \in {"idle", "done"}
    /\ raises => do_reset
    /\ vdb' = IF do_reset THEN reset_vector_db_collection(vdb, p, raises) ELSE vdb
    /\ run' = [v \in Workers |->
                IF v = w
                THEN [IdleRun EXCEPT
                        !.pc = "fetch", !.pid = p, !.do_reset = do_reset,
                        !.start = Max(OrDefault(page, 1), 1),
                        !.page_no = Max(OrDefault(page, 1), 1),
                        !.page_size = Max(Min(OrDefault(page_size, DefaultPageSize),
                                              PageSizeCap), 1),
                        !.stale = IF do_reset
                                  THEN PointIds(vdb, p) \ ChunkIds(chunks, p)
                                  ELSE {},
                        !.again = Again(w, p, do_reset),
                        !.next_at_start = mark,
                        !.before = IF Again(w, p, do_reset)
                                   THEN Len(vdb[create_collection_name(p)].points)
                                   ELSE 0,
                        !.recovering =
                                  /\ ~do_reset
                                  /\ run[w].outcome = "interrupted" \/ run[w].failed
                                  /\ run[w].pid = p /\ ~run[w].disturbed
                                  /\ PointIds(vdb, p) # {}
                                  /\ ~(ChunkIds(chunks, p) \subseteq PointIds(vdb, p))]
                ELSE IF do_reset /\ run[v].pc # "idle" /\ run[v].pid = p
                     THEN [run[v] EXCEPT !.disturbed = TRUE]
                     ELSE run[v]]
    /\ UNCHANGED <<chunks, nextId, ingest, resp, settings, projects, calls>>

PushStart(w, p, do_reset, page, page_size, raises) ==
    PushStartMarked(w, p, do_reset, page, page_size, raises, 1)

\* lines 48-52: the awaited page fetch
PushFetch(w) ==
    /\ run[w].pc = "fetch"
    /\ run' = [run EXCEPT ![w].pc = "index",
                          ![w].chunk_list =
                              get_project_chunks_paginated(chunks, run[w].pid,
                                  run[w].page_no, run[w].page_size)]
    /\ UNCHANGED <<chunks, nextId, vdb, ingest, resp, settings, projects, calls>>

StoredCount(n, failAt) ==
    IF failAt = 0 THEN n ELSE Min((failAt - 1) * BatchSize, n)

\* a finished run keeps its response and its history, not its loop variables
Finish(r, outcome) ==
    [r EXCEPT !.pc = "done", !.outcome = outcome, !.chunk_list = <<>>,
              !.page_no = 1, !.page_size = 1, !.next_at_start = 1]

\* lines 55-61: the response to an empty page
EmptyPageOutcomeFromOne(r) ==
    IF r.total_indexed = 0 /\ r.page_no = 1
    THEN "no_chunks_404" ELSE "push_successful_200"

EmptyPageOutcome(r) ==
    IF r.total_indexed = 0 /\ r.page_no = r.start
    THEN "no_chunks_404" ELSE "push_successful_200"

\* lines 55-85: empty-page test, index_into_vector_db, accumulate, next page
PushIndex(w, failAt) ==
    LET r == run[w]
        chunk_list == r.chunk_list
        chunk_ids == [i \in 1..Len(chunk_list) |-> chunk_list[i].id]
        index_result == index_into_vector_db(vdb, r.pid, chunk_list, chunk_ids, failAt)
        indexed_now == index_result.indexed_count
    IN
    /\ r.pc = "index"
    /\ failAt <= NumBatches(Len(chunk_list))
    /\ IF chunk_list = <<>>
       THEN /\ run' = [run EXCEPT ![w] = Finish(r, EmptyPageOutcome(r))]
            /\ vdb' = vdb
       ELSE /\ vdb' = index_result.db
            /\ IF indexed_now = 0
               THEN run' = [run EXCEPT ![w] = Finish(r, "indexing_failed_500")]
               ELSE run' = [run EXCEPT
                        ![w].pc = "fetch",
                        ![w].chunk_list = <<>>,
                        ![w].total_indexed = r.total_indexed + indexed_now,
                        ![w].page_no = r.page_no + 1,
                        ![w].pages = r.pages + 1,
                        ![w].failed = r.failed \/ ~index_result.inserted,
                        ![w].afterFail = r.afterFail \/ r.failed,
                        ![w].stored = r.stored + StoredCount(Len(chunk_list), failAt)]
    /\ UNCHANGED <<chunks, nextId, ingest, resp, settings, projects, calls>>

\* the process is killed while a push run is in flight
Crash(w) ==
    /\ Active(w)
    /\ run' = [run EXCEPT ![w] = Finish(run[w], "interrupted")]
    /\ UNCHANGED <<chunks, nextId, vdb, ingest, resp, settings, projects, calls>>

\* ------------------------------------------------------- search and answer
\* search_vector_db called for project p (what search_endpoint does after
\* get_or_create)
\* search_endpoint after get_or_create: the status and the wording of the
\* message it answers with (the project id is a slot of the wording)
search_endpoint(db, pid, text, limit, raises) ==
    LET search_results == search_vector_db(db, pid, text, OrDefault(limit, 5), raises)
    IN  IF search_results.kind = "raise"
        THEN [status |-> 500, message |-> "Search failed: {e}"]
        ELSE IF search_results.kind = "none"
        THEN [status |-> 404,
              message |-> "No results found or collection doesn't exist for project {project_id}"]
        ELSE [status |-> 200, message |-> "results"]

Repeats(p, text, limit) ==
    /\ resp.op = "search"
    /\ resp.pid = p /\ resp.text = text /\ resp.limit = limit

\* the search ensures the collection exists, as the index path does
SearchCreating(p, text, limit, raises) ==
    /\ resp' = [op |-> "search", pid |-> p, text |-> text, limit |-> limit,
                existed |-> is_collection_existed(vdb, create_collection_name(p)),
                \* the embedding of the query that search_vector_db computes
                query_vector |-> embed_text(text, "query"),
                \* the store's search call raised
                failed |-> raises /\ is_collection_existed(vdb, create_collection_name(p)),
                \* the call repeats the call before it, no write in between
                repeats |-> Repeats(p, text, limit),
                http |-> search_endpoint(vdb, p, text, limit, raises),
                results |-> search_vector_db(vdb, p, text, limit, raises)]
    /\ vdb' = create_collection(vdb, create_collection_name(p), embedding_size,
                                FALSE, FALSE)
    /\ UNCHANGED <<chunks, nextId, run, ingest, settings, projects, calls>>

Search(p, text, limit, raises) ==
    /\ resp' = [op |-> "search", pid |-> p, text |-> text, limit |-> limit,
                existed |-> is_collection_existed(vdb, create_collection_name(p)),
                \* the embedding of the query that search_vector_db computes
                query_vector |-> embed_text(text, "query"),
                \* the store's search call raised
                failed |-> raises /\ is_collection_existed(vdb, create_collection_name(p)),
                \* the call repeats the call before it, no write in between
                repeats |-> Repeats(p, text, limit),
                http |-> search_endpoint(vdb, p, text, limit, raises),
                results |-> search_vector_db(vdb, p, text, limit, raises)]
    /\ UNCHANGED <<chunks, nextId, vdb, run, ingest, settings, projects, calls>>

Answer(p, query, limit, raises, generated) ==
    /\ resp' = [op |-> "answer", pid |-> p, text |-> query, limit |-> limit,
                existed |-> is_collection_existed(vdb, create_collection_name(p)),
                query_vector |-> embed_text(query, "query"),
                failed |-> raises /\ is_collection_existed(vdb, create_collection_name(p)),
                results |-> search_vector_db(vdb, p, query, limit, raises),
                \* what the generation client hands back if it is called
                generated |-> generated,
                returned |-> answer_rag_question(vdb, p, query, limit, raises, generated)]
    /\ UNCHANGED <<chunks, nextId, vdb, run, ingest, settings, projects, calls>>

\* get_vector_db_collection_info: client.get_collection raises when the
\* collection is missing and the handler answers 500
get_vector_db_collection_info(db, pid) ==
    LET collection_name == create_collection_name(pid)
    IN  IF is_collection_existed(db, collection_name)
        THEN [kind |-> "info",
              points_count |-> Len(db[collection_name].points),
              size |-> db[collection_name].size]
        ELSE [kind |-> "raise", points_count |-> 0, size |-> 0]

\* get_index_info_endpoint
Info(p) ==
    /\ resp' = [op |-> "info", pid |-> p,
                existed |-> is_collection_existed(vdb, create_collection_name(p)),
                info |-> get_vector_db_collection_info(vdb, p)]
    /\ UNCHANGED <<chunks, nextId, vdb, run, ingest, settings, projects, calls>>

\* the response has gone back to the caller
Return ==
    /\ resp # NoResp
    /\ resp' = NoResp
    /\ UNCHANGED <<chunks, nextId, vdb, run, ingest, settings, projects, calls>>

Next ==
    \/ \E p \in OneProject, f \in Files : ProcessOne(p, f)
    \/ \E p \in OneProject, f \in Files : ProcessOneReset(p, f)
    \/ \E p \in OneProject : ProcessOneInsert(p)
    \/ \E p \in OneProject, d \in Directories : ProcessAll(p, d)
    \/ \E w \in OneWorker, p \in OneProject, do_reset \in BOOLEAN,
          page \in 0..MaxPageInput, page_size \in 0..MaxPageSizeInput,
          raises \in BOOLEAN :
            PushStart(w, p, do_reset, page, page_size, raises)
    \/ \E w \in OneWorker : PushFetch(w)
    \/ \E w \in OneWorker, failAt \in 0..MaxChunkId : PushIndex(w, failAt)
    \/ \E w \in OneWorker : Crash(w)

\* indexing, ingestion and failures of the store
Spec == Init /\ [][Next]_vars

Generated == {"text", NoText}

QueryNext ==
    \/ /\ resp = NoResp
       /\ \/ \E p \in OneProject, f \in Files : ProcessOne(p, f)
          \/ \E w \in OneWorker, p \in OneProject, do_reset \in BOOLEAN :
                PushStart(w, p, do_reset, 0, 0, FALSE)
          \/ \E w \in OneWorker : PushFetch(w)
          \/ \E w \in OneWorker, failAt \in 0..MaxChunkId : PushIndex(w, failAt)
    \/ \E p \in OneProject, text \in Queries, limit \in 1..MaxLimit, raises \in BOOLEAN :
            Search(p, text, limit, raises)
    \/ \E p \in OneProject, text \in Queries, limit \in 1..MaxLimit, raises \in BOOLEAN,
          generated \in Generated :
            Answer(p, text, limit, raises, generated)
    \/ Return

\* the application is started with either embedding provider
QueryInit ==
    /\ chunks = <<>>
    /\ nextId = 1
    /\ vdb = [n \in CollectionNames |-> NoCollection]
    /\ run = [w \in Workers |-> IdleRun]
    /\ ingest = [p \in Projects |-> "none"]
    /\ resp = NoResp
    /\ settings \in {[StartSettings EXCEPT !.EMBEDDING_BACKEND = b] : b \in Backends}
    /\ projects = [p \in Projects |-> "present"]
    /\ calls = [w \in Workers |-> IdleCall]

\* retrieval and answering over the collections that indexing builds
QuerySpec == QueryInit /\ [][QueryNext]_vars

\* the application is stopped and started again with another embedding size;
\* the coroutines in flight die with the process
Restart(size) ==
    /\ size # settings.EMBEDDING_SIZE
    /\ settings' = [settings EXCEPT !.EMBEDDING_SIZE = size]
    /\ run' = [w \in Workers |->
                IF Active(w) THEN Finish(run[w], "interrupted") ELSE run[w]]
    /\ ingest' = [p \in Projects |-> "none"]
    /\ UNCHANGED <<chunks, nextId, vdb, resp, projects, calls>>

ConfigNext ==
    \/ \E p \in OneProject, f \in Files : ProcessOne(p, f)
    \/ \E w \in OneWorker, p \in OneProject, do_reset \in BOOLEAN, raises \in BOOLEAN :
            PushStart(w, p, do_reset, 0, 0, raises)
    \/ \E w \in OneWorker : PushFetch(w)
    \/ \E w \in OneWorker, failAt \in 0..MaxChunkId : PushIndex(w, failAt)
    \/ \E size \in EmbeddingSizes : Restart(size)

\* indexing across restarts that change the configured embedding size
ConfigSpec == Init /\ [][ConfigNext]_vars

\* ingestion alone, with the responses of process_all_files
IngestNext ==
    \/ /\ resp = NoResp
       /\ \/ \E p \in OneProject, f \in Files : ProcessOne(p, f)
          \/ \E p \in OneProject, f \in Files : ProcessOneReset(p, f)
          \/ \E p \in OneProject : ProcessOneInsert(p)
    \/ \E p \in OneProject, d \in Directories \cup {<<>>} : ProcessAllCall(p, d)
    \/ Return

IngestSpec == Init /\ [][IngestNext]_vars

\* two push requests in flight over one project, the store not failing
ConcNext ==
    \/ \E p \in OneProject, f \in Files : ProcessOne(p, f)
    \/ \E w \in Workers, p \in OneProject, do_reset \in BOOLEAN, page_size \in 0..1 :
            PushStart(w, p, do_reset, 0, page_size, FALSE)
    \/ \E w \in Workers : PushFetch(w)
    \/ \E w \in Workers : PushIndex(w, 0)

ConcSpec == Init /\ [][ConcNext]_vars

\* ------------------------------------------------------------ ProjectModel
\* get_or_create up to the await of create_project's insert: the lookup
\* get_by_project_id, which returns the project if there is one
GetOrCreateFind(w, project_id) ==
    /\ calls[w].pc = "idle"
    /\ calls' = [calls EXCEPT ![w] =
                    [IdleCall EXCEPT
                        !.op = "get_or_create", !.project_id = project_id,
                        !.pc = IF projects[project_id] = "present"
                               THEN "returned" ELSE "create"]]
    /\ UNCHANGED <<chunks, nextId, vdb, run, ingest, resp, settings, projects>>

\* create_project: insert_one under the unique index on project_id; a
\* DuplicateKeyError leaves as ValueError.  A project_id is given one
\* ObjectId only: it is not inserted again after its document was deleted
CreateProject(w) ==
    LET project_id == calls[w].project_id IN
    /\ calls[w].pc = "create"
    /\ projects[project_id] # "deleted"
    /\ IF projects[project_id] = "present"
       THEN /\ calls' = [calls EXCEPT ![w].pc = "raised"]
            /\ projects' = projects
       ELSE /\ calls' = [calls EXCEPT ![w].pc = "returned"]
            /\ projects' = [projects EXCEPT ![project_id] = "present"]
    /\ UNCHANGED <<chunks, nextId, vdb, run, ingest, resp, settings>>

\* delete_by_project_id (cascade_chunks), the lookup of the project
DeleteFind(w, project_id) ==
    /\ calls[w].pc = "idle"
    /\ calls' = [calls EXCEPT ![w] =
                    [IdleCall EXCEPT
                        !.op = "delete", !.project_id = project_id,
                        !.pc = IF projects[project_id] = "present"
                               THEN "cascade" ELSE "delete_doc"]]
    /\ UNCHANGED <<chunks, nextId, vdb, run, ingest, resp, settings, projects>>

\* the chunks of the project are left in place
DeleteCascadeSkipped(w) ==
    /\ calls[w].pc = "cascade"
    /\ calls' = [calls EXCEPT ![w].pc = "delete_doc"]
    /\ UNCHANGED <<chunks, nextId, vdb, run, ingest, resp, settings, projects>>

\* delete_by_project_id, chunks_collection.delete_many
DeleteCascade(w) ==
    LET project_id == calls[w].project_id IN
    /\ calls[w].pc = "cascade"
    /\ chunks' = del_chunks_by_project_id(chunks, project_id)
    /\ calls' = [calls EXCEPT
                    ![w].pc = "delete_doc",
                    ![w].deleted_chunks = Len(SelectSeqBy(chunks, project_id))]
    /\ run' = DisturbRuns(project_id)
    /\ UNCHANGED <<nextId, vdb, ingest, resp, settings, projects>>

\* delete_by_project_id, collection.delete_one
DeleteDoc(w) ==
    LET project_id == calls[w].project_id IN
    /\ calls[w].pc = "delete_doc"
    /\ projects' = IF projects[project_id] = "present"
                   THEN [projects EXCEPT ![project_id] = "deleted"]
                   ELSE projects
    /\ calls' = [calls EXCEPT ![w].pc = "returned"]
    /\ UNCHANGED <<chunks, nextId, vdb, run, ingest, resp, settings>>

\* the ProjectModel call has returned or raised to its caller
CallReturn(w) ==
    /\ calls[w].pc \in {"returned", "raised"}
    /\ calls' = [calls EXCEPT ![w] = IdleCall]
    /\ UNCHANGED <<chunks, nextId, vdb, run, ingest, resp, settings, projects>>

\* no project has been created yet
ProjInit ==
    /\ chunks = <<>>
    /\ nextId = 1
    /\ vdb = [n \in CollectionNames |-> NoCollection]
    /\ run = [w \in Workers |-> IdleRun]
    /\ ingest = [p \in Projects |-> "none"]
    /\ resp = NoResp
    /\ settings = StartSettings
    /\ projects = [p \in Projects |-> "absent"]
    /\ calls = [w \in Workers |-> IdleCall]

\* process_one_file answers 404 unless get_by_project_id finds the project
ProjNext ==
    \/ \E w \in Workers, p \in Projects : GetOrCreateFind(w, p)
    \/ \E w \in Workers : CreateProject(w)
    \/ \E w \in Workers, p \in Projects : DeleteFind(w, p)
    \/ \E w \in Workers : DeleteCascade(w)
    \/ \E w \in Workers : DeleteDoc(w)
    \/ \E w \in Workers : CallReturn(w)
    \/ \E p \in Projects, f \in Files : projects[p] = "present" /\ ProcessOne(p, f)
    \/ \E p \in Projects, f \in Files : projects[p] = "present" /\ ProcessOneReset(p, f)
    \/ \E p \in Projects : ProcessOneInsert(p)

\* project creation and deletion next to ingestion
ProjSpec == ProjInit /\ [][ProjNext]_vars

\* ------------------------------------------------------------ text splitter
\* a text is the sequence of its characters
Alphabet == {"x", "y", " ", "\n"}
Whitespace == {" ", "\n"}
Texts == UNION {[1..n -> Alphabet] : n \in 1..MaxTextLen}

\* separators=["\n\n", "\n", " ", ""] of process_document
Separators == << <<"\n", "\n">>, <<"\n">>, <<" ">>, <<>> >>

RECURSIVE lstrip(_)
lstrip(t) ==
    IF t # <<>> /\ Head(t) \in Whitespace THEN lstrip(Tail(t)) ELSE t

RECURSIVE rstrip(_)
rstrip(t) ==
    IF t # <<>> /\ t[Len(t)] \in Whitespace
    THEN rstrip(SubSeq(t, 1, Len(t) - 1)) ELSE t

\* str.strip()
strip(t) == rstrip(lstrip(t))

RECURSIVE concat(_)
concat(parts) ==
    IF parts = <<>> THEN <<>> ELSE Head(parts) \o concat(Tail(parts))

\* position of the first occurrence of sep in t (0: none)
FirstAt(t, sep) ==
    LET at == {i \in 1..Len(t) :
                /\ i + Len(sep) - 1 <= Len(t)
                /\ SubSeq(t, i, i + Len(sep) - 1) = sep}
    IN  IF at = {} THEN 0 ELSE CHOOSE i \in at : \A j \in at : i <= j

\* re.split(sep, t): the texts between the occurrences of sep
RECURSIVE Pieces(_, _)
Pieces(t, sep) ==
    LET i == FirstAt(t, sep)
    IN  IF i = 0 THEN <<t>>
        ELSE <<SubSeq(t, 1, i - 1)>> \o Pieces(SubSeq(t, i + Len(sep), Len(t)), sep)

\* the splitter's split on one separator with keep_separator: each piece
\* after the first starts with the separator, empty pieces are dropped, and
\* the separator "" cuts the text into its characters
split_text_with_regex(t, sep) ==
    IF sep = <<>> THEN [i \in 1..Len(t) |-> <<t[i]>>]
    ELSE LET ps == Pieces(t, sep)
             joined == [i \in 1..Len(ps) |-> IF i = 1 THEN ps[1] ELSE sep \o ps[i]]
         IN  SelectSeq(joined, LAMBDA piece : piece # <<>>)

\* _join_docs: the joined text stripped (an empty text stands for None)
join_docs(docs) == strip(concat(docs))

\* the while loop of _merge_splits that drops splits from the front of
\* current_doc until what is left fits the overlap and the next split
RECURSIVE DropFront(_, _, _, _, _)
DropFront(current_doc, total, len, chunk_size, chunk_overlap) ==
    IF total > chunk_overlap \/ (total + len > chunk_size /\ total > 0)
    THEN DropFront(Tail(current_doc), total - Len(Head(current_doc)), len,
                   chunk_size, chunk_overlap)
    ELSE [current_doc |-> current_doc, total |-> total]

\* _merge_splits with the separator "" (keep_separator)
RECURSIVE merge_splits(_, _, _, _, _, _)
merge_splits(splits, docs, current_doc, total, chunk_size, chunk_overlap) ==
    IF splits = <<>>
    THEN docs \o (IF join_docs(current_doc) # <<>>
                  THEN <<join_docs(current_doc)>> ELSE <<>>)
    ELSE LET d == Head(splits)
             full == total + Len(d) > chunk_size /\ current_doc # <<>>
             docs1 == IF full /\ join_docs(current_doc) # <<>>
                      THEN Append(docs, join_docs(current_doc)) ELSE docs
             kept == IF full
                     THEN DropFront(current_doc, total, Len(d), chunk_size,
                                    chunk_overlap)
                     ELSE [current_doc |-> current_doc, total |-> total]
         IN  merge_splits(Tail(splits), docs1, Append(kept.current_doc, d),
                          kept.total + Len(d), chunk_size, chunk_overlap)

\* index of the separator _split_text picks: the first that is "" or occurs
\* in the text
PickSeparator(text, separators) ==
    CHOOSE i \in 1..Len(separators) :
        /\ separators[i] = <<>> \/ FirstAt(text, separators[i]) # 0
        /\ \A j \in 1..(i - 1) :
                separators[j] # <<>> /\ FirstAt(text, separators[j]) = 0

\* RecursiveCharacterTextSplitter._split_text and its loop over the splits
RECURSIVE split_text(_, _, _, _)
RECURSIVE SplitLoop(_, _, _, _, _, _)
SplitLoop(splits, good_splits, final_chunks, new_separators, chunk_size, chunk_overlap) ==
    LET merged == IF good_splits = <<>> THEN <<>>
                  ELSE merge_splits(good_splits, <<>>, <<>>, 0, chunk_size,
                                    chunk_overlap)
    IN  IF splits = <<>> THEN final_chunks \o merged
        ELSE IF Len(Head(splits)) < chunk_size
        THEN SplitLoop(Tail(splits), Append(good_splits, Head(splits)),
                       final_chunks, new_separators, chunk_size, chunk_overlap)
        ELSE SplitLoop(Tail(splits), <<>>,
                       final_chunks \o merged
                         \o (IF new_separators = <<>> THEN <<Head(splits)>>
                             ELSE split_text(Head(splits), new_separators,
                                             chunk_size, chunk_overlap)),
                       new_separators, chunk_size, chunk_overlap)

split_text(text, separators, chunk_size, chunk_overlap) ==
    LET i == PickSeparator(text, separators)
        separator == separators[i]
        new_separators == IF separator = <<>> THEN <<>>
                          ELSE SubSeq(separators, i + 1, Len(separators))
    IN  SplitLoop(split_text_with_regex(text, separator), <<>>, <<>>,
                  new_separators, chunk_size, chunk_overlap)

\* process_document from the loaded file content on: it raises on an empty
\* content and on an empty chunk list
chunk_file_content(file_content, chunk_size, chunk_overlap) ==
    IF strip(file_content) = <<>> THEN Raised
    ELSE LET found == split_text(file_content, Separators, chunk_size, chunk_overlap)
         IN  IF found = <<>> THEN Raised ELSE List(found)

\* process_document called on a file of content file_content
Chunk(file_content, chunk_size, chunk_overlap) ==
    /\ resp = NoResp
    /\ resp' = [op |-> "chunk", text |-> file_content, chunk_size |-> chunk_size,
                chunk_overlap |-> chunk_overlap,
                chunks |-> chunk_file_content(file_content, chunk_size, chunk_overlap)]
    /\ UNCHANGED <<chunks, nextId, vdb, run, ingest, settings, projects, calls>>

ChunkNext ==
    \/ \E file_content \in Texts, chunk_size \in 1..MaxChunkSize :
        \E chunk_overlap \in 0..(chunk_size - 1) :
            Chunk(file_content, chunk_size, chunk_overlap)
    \/ Return

\* the chunker applied to every text, chunk_size and chunk_overlap
ChunkSpec == Init /\ [][ChunkNext]_vars

\* two projects served by one store
\* push runs from page 1 while processone and processall write the chunk
\* store; a run's history keeps the id that the next chunk had at its start
RaceNext ==
    \/ \E p \in OneProject, f \in Files : ProcessOne(p, f)
    \/ \E p \in OneProject, f \in Files : ProcessOneReset(p, f)
    \/ \E p \in OneProject : ProcessOneInsert(p)
    \/ \E p \in OneProject, d \in Directories : ProcessAll(p, d)
    \/ \E w \in OneWorker, p \in OneProject, do_reset \in BOOLEAN,
          page_size \in 0..MaxPageSizeInput :
            PushStartMarked(w, p, do_reset, 0, page_size, FALSE, nextId)
    \/ \E w \in OneWorker : PushFetch(w)
    \/ \E w \in OneWorker, failAt \in 0..MaxChunkId : PushIndex(w, failAt)

RaceSpec == Init /\ [][RaceNext]_vars

\* push runs over a chunk store that is written only between runs.  The
\* event loop resumes a run whose awaited fetch has completed, and the
\* indexing of a fetched page is straight-line code: both steps are weakly
\* fair.  PushIndex(w, 0) is enabled exactly when run[w].pc = "index", and
\* its weak fairness is written with that guard in the place of ENABLED
PagingNext ==
    \/ /\ \A w \in Workers : ~Active(w)
       /\ \E p \in OneProject, f \in Files : ProcessOne(p, f)
    \/ \E w \in OneWorker, p \in OneProject, do_reset \in BOOLEAN,
          page \in 0..MaxPageInput, page_size \in 0..MaxPageSizeInput :
            PushStart(w, p, do_reset, page, page_size, FALSE)
    \/ \E w \in OneWorker : PushFetch(w)
    \/ \E w \in OneWorker, failAt \in 0..MaxChunkId : PushIndex(w, failAt)

PagingSpec ==
    /\ Init /\ [][PagingNext]_vars
    /\ \A w \in OneWorker :
          /\ WF_vars(PushFetch(w))
          /\ \/ []<>(run[w].pc # "index")
             \/ []<><<\E failAt \in 0..MaxChunkId : PushIndex(w, failAt)>>_vars

MultiNext ==
    \/ /\ resp = NoResp
       /\ \/ \E p \in Projects, f \in Files : ProcessOne(p, f)
          \/ \E w \in OneWorker, p \in Projects, do_reset \in BOOLEAN :
                PushStart(w, p, do_reset, 0, 0, FALSE)
          \/ \E w \in OneWorker : PushFetch(w)
          \/ \E w \in OneWorker : PushIndex(w, 0)
    \/ \E p \in Projects, text \in Queries, limit \in 1..MaxLimit, raises \in BOOLEAN :
            Search(p, text, limit, raises)
    \/ \E p \in Projects : Info(p)
    \/ Return

MultiSpec == Init /\ [][MultiNext]_vars

TypeOK ==
    /\ nextId \in 1..(MaxChunkId + 1)
    /\ \A w \in Workers : run[w].pc \in {"idle", "fetch", "index", "done"}

\* ================================================================ properties
Points(pid) == vdb[create_collection_name(pid)].points
PointsWithId(pid, id) == {i \in 1..Len(Points(pid)) : Points(pid)[i].id = id}
Success(r) == r.pc = "done" /\ r.outcome = "push_successful_200"

\* C1 -- Idempotent indexing: when a push without reset repeats a push that
\* indexed the same chunks, the collection never grows: it keeps the number of
\* points it had and exactly one point per chunk id (N, never 2N), during and
\* after the second run.
C1_IdempotentIndexing ==
    \A w \in Workers :
        (run[w].pc # "idle" /\ run[w].again /\ ~run[w].disturbed)
        => /\ Len(Points(run[w].pid)) = run[w].before
           /\ \A id \in ChunkIds(chunks, run[w].pid) :
                Cardinality(PointsWithId(run[w].pid, id)) = 1

C1_Witness ==
    \E w \in Workers :
        /\ Success(run[w]) /\ run[w].again /\ ~run[w].disturbed /\ ~run[w].failed
        /\ run[w].total_indexed = Cardinality(ChunkIds(chunks, run[w].pid))
        /\ run[w].total_indexed >= 2
        /\ Len(Points(run[w].pid)) = run[w].total_indexed

\* C2 -- Reset then index: a push with do_reset over a collection that held
\* stale points, once ended (no upload failed, no other writer), leaves as
\* many points as it indexed chunks and none of the stale ids.
C2_ResetThenIndex ==
    \A w \in Workers :
        (run[w].pc = "done" /\ run[w].do_reset /\ run[w].outcome # "interrupted"
            /\ run[w].stale # {} /\ ~run[w].failed /\ ~run[w].disturbed)
        => /\ Len(Points(run[w].pid)) = run[w].total_indexed
           /\ run[w].stale \cap PointIds(vdb, run[w].pid) = {}

\* C3 -- No duplicates, no orphans: when a push from the first page reports
\* success (no upload failed, the chunks were not written since it started),
\* the point ids of the collection are exactly the ids of the stored chunks.
C3_NoDuplicatesNoOrphans ==
    \A w \in Workers :
        (Success(run[w]) /\ run[w].start = 1 /\ ~run[w].failed /\ ~run[w].disturbed)
        => /\ PointIds(vdb, run[w].pid) = ChunkIds(chunks, run[w].pid)
           /\ \A id \in PointIds(vdb, run[w].pid) :
                Cardinality(PointsWithId(run[w].pid, id)) = 1

\* C4 -- A failed batch upsert aborts the run: after a batch upload of a run
\* has failed, the run indexes no further page and does not report success.
C4_FailedBatchAborts ==
    \A w \in Workers :
        run[w].failed => (~run[w].afterFail /\ ~Success(run[w]))

\* C5 -- indexed_count is the number of chunks stored: a run that reports
\* success reports as indexed_count the number of chunks whose points its
\* uploads stored.
C5_IndexedCountIsStored ==
    \A w \in Workers :
        Success(run[w]) => run[w].total_indexed = run[w].stored

\* C6 -- Empty first page versus empty later page: when the handler tests an
\* empty page, it answers "no chunks found" and leaves the store alone if no
\* page was indexed before, and answers success with the accumulated count
\* otherwise; so not-found never follows an indexed page and success never
\* follows none.
C6_EmptyPageOutcomes ==
    [][\A w \in Workers :
        (run[w].pc = "index" /\ run[w].chunk_list = <<>>
            /\ run'[w].pc = "done" /\ run'[w].outcome # "interrupted")
        => /\ run[w].pages = 0 =>
                (run'[w].outcome = "no_chunks_404" /\ vdb' = vdb
                    /\ run'[w].total_indexed = 0)
           /\ run[w].pages > 0 =>
                (run'[w].outcome = "push_successful_200"
                    /\ run'[w].total_indexed = run[w].total_indexed
                    /\ run'[w].total_indexed > 0)]_vars

C6_Witness ==
    \E w \in Workers :
        /\ Success(run[w]) /\ run[w].start = 2
        /\ run[w].pages >= 1 /\ run[w].total_indexed >= 1

\* C7 -- Safe re-run: a push without reset from the first page that follows an
\* interrupted or failed run over a partially populated collection, meets no
\* upload failure and reports success, leaves exactly one point for every
\* chunk of the project.
C7_SafeRerun ==
    \A w \in Workers :
        (Success(run[w]) /\ run[w].recovering /\ run[w].start = 1
            /\ ~run[w].failed /\ ~run[w].disturbed)
        => \A id \in ChunkIds(chunks, run[w].pid) :
                Cardinality(PointsWithId(run[w].pid, id)) = 1

C7_Witness ==
    \E w \in Workers :
        /\ Success(run[w]) /\ run[w].recovering /\ run[w].start = 1
        /\ ~run[w].failed /\ ~run[w].disturbed
        /\ Cardinality(ChunkIds(chunks, run[w].pid)) >= 2
        /\ run[w].total_indexed = Cardinality(ChunkIds(chunks, run[w].pid))

\* C8 -- Search on a project without a collection: the call returns None or
\* an empty list, raises nothing, and leaves every store as it was (the
\* collection is not created).
C8_SearchMissingCollection ==
    [][(resp'.op = "search" /\ ~resp'.existed)
        => /\ resp'.results.kind # "raise"
           /\ Falsy(resp'.results)
           /\ vdb' = vdb /\ chunks' = chunks
           /\ ~is_collection_existed(vdb', create_collection_name(resp'.pid))]_vars

C8_Witness ==
    /\ resp.op = "search" /\ ~resp.existed /\ resp.results = None
    /\ chunks # <<>>

\* C9 -- answer without results: when the search of an answer call yields
\* None or an empty list, answer returns (None, None, None) and the
\* generation client is not called.
C9_AnswerNoResults ==
    (resp.op = "answer" /\ Falsy(resp.results))
    => /\ resp.returned.answer = NoText
       /\ resp.returned.full_prompt = None
       /\ resp.returned.chat_history = None
       /\ resp.returned.generate_calls = 0

C9_Witness ==
    /\ resp.op = "answer" /\ resp.existed /\ resp.results = List(<<>>)
    /\ resp.returned.generate_calls = 0

\* C10 -- Document fragments: the prompt of an answer holds one document
\* fragment per search result, the fragment at rank r carries doc_num = r
\* (from 1) and the chunk_text of the result at rank r, in rank order, before
\* the footer.
C10_DocumentFragments ==
    (resp.op = "answer" /\ ~Falsy(resp.results))
    => LET results == resp.results.items
           prompt == resp.returned.full_prompt.items
       IN  /\ resp.returned.full_prompt.kind = "list"
           /\ Len(prompt) = Len(results) + 1
           /\ \A r \in 1..Len(results) :
                /\ prompt[r].template = "document_prompt"
                /\ prompt[r].vars.doc_num = r
                /\ prompt[r].vars.chunk_text = results[r].payload.chunk_text
           /\ \A r \in 1..(Len(results) - 1) :
                results[r].score >= results[r + 1].score

C10_Witness ==
    /\ resp.op = "answer" /\ resp.results.kind = "list"
    /\ Len(resp.results.items) = 2
    /\ resp.results.items[1].payload.chunk_text
            # resp.results.items[2].payload.chunk_text
    /\ resp.results.items[1].id > resp.results.items[2].id

\* C11 -- Answer with results: when the search of an answer call yields at
\* least one result, the generation client is called exactly once, with
\* full_prompt (the document fragments in rank order, then the footer for
\* the query) and with a chat_history of exactly one message, the system
\* message; answer returns the client's text together with that same
\* full_prompt and chat_history, also when the client's text is absent.
C11_AnswerWithResults ==
    (resp.op = "answer" /\ ~Falsy(resp.results) /\ resp.results.kind = "list")
    => LET r == resp.returned
           system_message ==
               construct_prompt(<<template("system_prompt", <<>>)>>, "system")
       IN  /\ r.generate_calls = 1
           /\ r.full_prompt
                = List(documents_prompt(resp.results.items)
                        \o <<template("footer_prompt", [query |-> resp.text])>>)
           /\ r.chat_history = List(<<system_message>>)
           /\ Len(r.chat_history.items) = 1
           /\ r.chat_history.items[1].role = "system"
           /\ r.sent.prompt = r.full_prompt
           /\ r.sent.chat_history = r.chat_history
           /\ r.answer = resp.generated

C11_Witness ==
    /\ resp.op = "answer" /\ resp.results.kind = "list"
    /\ Len(resp.results.items) = 2
    /\ resp.generated = NoText
    /\ resp.returned.answer = NoText
    /\ resp.returned.full_prompt.kind = "list"
    /\ resp.returned.chat_history.kind = "list"
    /\ resp.returned.generate_calls = 1

\* C12 -- Embedding modes are never mixed: every chunk is embedded with
\* document_type "document" and every query with document_type "query", and
\* a provider that has embedding modes applies the mode it is passed
\* (search_document to chunks, search_query to queries); so no stored point
\* was embedded in query mode and no query in document mode.
C12_EmbeddingModes ==
    /\ \A p \in Projects : \A i \in 1..Len(Points(p)) :
            /\ Points(p)[i].vector.input_type # "search_query"
            /\ settings.EMBEDDING_BACKEND = "COHERE"
                    => Points(p)[i].vector.input_type = "search_document"
    /\ resp.op \in {"search", "answer"}
            => /\ resp.query_vector.input_type # "search_document"
               /\ settings.EMBEDDING_BACKEND = "COHERE"
                    => resp.query_vector.input_type = "search_query"

C12_Witness ==
    /\ settings.EMBEDDING_BACKEND = "COHERE"
    /\ resp.op = "search" /\ resp.results.kind = "list"
    /\ Len(resp.results.items) >= 1
    /\ resp.query_vector.input_type = "search_query"
    /\ Points(resp.pid)[1].vector.input_type = "search_document"

\* C13 -- Collection name: the name is collection_<project id>, a function
\* of the project id alone, and two different projects have different
\* names; reset, index, search and collection_info of a project all act on
\* the collection of that name: a reset leaves it empty, every point in it
\* was indexed for that project, search returns points of it and
\* collection_info counts its points.
C13_CollectionName ==
    /\ \A p \in Projects : create_collection_name(p) = <<"collection_", p>>
    /\ \A p, q \in Projects :
            p # q => create_collection_name(p) # create_collection_name(q)
    /\ \A p \in Projects : \A i \in 1..Len(Points(p)) :
            /\ Points(p)[i].payload.chunk_project_id = p
            /\ Points(p)[i].id \in ChunkIds(chunks, p)
    /\ \A w \in Workers :
            (run[w].pc = "fetch" /\ run[w].do_reset /\ run[w].pages = 0)
                => Points(run[w].pid) = <<>>
    /\ (resp.op = "search" /\ resp.results.kind = "list")
            => \A i \in 1..Len(resp.results.items) :
                    resp.results.items[i].id \in PointIds(vdb, resp.pid)
    /\ (resp.op = "info" /\ resp.existed)
            => /\ resp.info.kind = "info"
               /\ resp.info.points_count = Len(Points(resp.pid))

\* both projects are indexed and the one asked about holds fewer points
C13_Witness ==
    /\ resp.op = "info" /\ resp.existed
    /\ \A p \in Projects : Points(p) # <<>>
    /\ \E q \in Projects : Len(Points(q)) > resp.info.points_count

\* C18 -- Search result size, order and project: a search of project P
\* whose collection holds N points returns exactly min(limit, N) results,
\* by non-increasing score, each with payload chunk_project_id = P, also
\* when other projects are indexed in the same store (the store's search
\* call not failing).
C18_SearchResults ==
    (resp.op = "search" /\ resp.existed /\ ~resp.failed)
    => LET items == resp.results.items
       IN  /\ resp.results.kind = "list"
           /\ Len(items) = Min(resp.limit, Len(Points(resp.pid)))
           /\ \A i \in 1..(Len(items) - 1) : items[i].score >= items[i + 1].score
           /\ \A i \in 1..Len(items) :
                items[i].payload.chunk_project_id = resp.pid

\* the limit cuts the result while the other project is indexed too
C18_Witness ==
    /\ resp.op = "search" /\ resp.existed /\ ~resp.failed
    /\ Len(Points(resp.pid)) > resp.limit
    /\ Len(resp.results.items) = resp.limit
    /\ \E q \in Projects : q # resp.pid /\ Points(q) # <<>>

\* C14 -- Collection dimension is stable: the dimension of an existing
\* collection changes only in a step that resets it (delete then create);
\* the ensure-exists create of an index step leaves the dimension of an
\* existing collection as it was and removes none of its points, whatever
\* embedding size is configured.
C14_StableDimension ==
    [][\A n \in CollectionNames :
        (vdb[n].exists /\ vdb'[n].exists)
        => /\ vdb'[n].size # vdb[n].size
                => \E w \in Workers :
                        /\ run[w].pc \in {"idle", "done"} /\ run'[w].pc = "fetch"
                        /\ run'[w].do_reset
                        /\ n = create_collection_name(run'[w].pid)
           /\ \A w \in Workers :
                (run[w].pc = "index" /\ n = create_collection_name(run[w].pid))
                => /\ vdb'[n].size = vdb[n].size
                   /\ {r.id : r \in Range(vdb[n].points)}
                        \subseteq {r.id : r \in Range(vdb'[n].points)}]_vars

\* a run has indexed a page into a collection created under another size
C14_Witness ==
    \E w \in Workers :
        /\ run[w].pc = "fetch" /\ ~run[w].do_reset /\ run[w].pages >= 1
        /\ Points(run[w].pid) # <<>>
        /\ vdb[create_collection_name(run[w].pid)].size # embedding_size

\* the chunks a step appended to the collection (none if it appended none)
Appended ==
    IF Len(chunks') > Len(chunks) /\ Slice(chunks', 1, Len(chunks)) = chunks
    THEN Slice(chunks', Len(chunks) + 1, Len(chunks')) ELSE <<>>

\* C15 -- chunk_order per document: the chunks an ingestion step stores for
\* one document carry chunk_order 1..k in source order, in processone and for
\* every document of a processall.
C15_OrdersPerDocument ==
    [][\A f \in Files :
        LET of_f == SelectSeq(Appended, LAMBDA c : c.chunk_metadata = f)
        IN  \A i \in 1..Len(of_f) : of_f[i].chunk_order = i]_vars

\* C16 -- chunk_order is unique within a project: no two chunks of one
\* project carry the same chunk_order.
C16_UniqueOrder ==
    \A p \in Projects :
        LET of_p == SelectSeqBy(chunks, p)
        IN  \A i, j \in 1..Len(of_p) :
                i # j => of_p[i].chunk_order # of_p[j].chunk_order

\* C17 -- Failing files in processall: every file that fails is listed, in
\* directory order, with its name and its error; the chunks of every other
\* file are inserted, in order; the run answers processing_failed exactly
\* when every file failed, and then inserts nothing.
C17_FailingFiles ==
    [][resp'.op = "processall" /\ resp'.all_files # <<>>
        => LET fs == resp'.all_files
               bad == SelectSeq(fs, LAMBDA f : Raises(f))
               good == SelectSeq(fs, LAMBDA f : ~Raises(f))
           IN  /\ resp'.failed_files
                    = [i \in 1..Len(bad) |-> [file |-> bad[i], error |-> ErrorOf(bad[i])]]
               /\ (resp'.status = "processing_failed") = (good = <<>>)
               /\ resp'.status = "processing_failed" => chunks' = chunks
               /\ good # <<>>
                    => /\ resp'.status = "processing_success"
                       /\ Slice(chunks', 1, Len(chunks)) = chunks
                       /\ Len(chunks') = Len(chunks) + resp'.inserted_chunks
                       /\ \A c \in Range(Appended) : c.chunk_metadata \in Range(good)
                       /\ \A i \in 1..Len(good) :
                            LET of_f == SelectSeq(Appended,
                                            LAMBDA c : c.chunk_metadata = good[i])
                            IN  [k \in 1..Len(of_f) |-> of_f[k].chunk_text]
                                    = process_document(good[i])]_vars

C17_Witness ==
    /\ resp.op = "processall" /\ resp.status = "processing_success"
    /\ resp.failed_files # <<>> /\ resp.all_files[1] = "bad"
    /\ resp.inserted_chunks >= 2
    /\ Len(chunks) >= resp.inserted_chunks

C20_ResetSerialized ==
    [][\A w \in Workers :
        /\ (Active(w) /\ run[w].pages >= 1
                /\ run[w].pages * run[w].page_size
                        < Cardinality(ChunkIds(chunks, run[w].pid)))
            => \A v \in Workers \ {w} :
                    ~(/\ run[v].pc \in {"idle", "done"} /\ run'[v].pc = "fetch"
                      /\ run'[v].do_reset /\ run'[v].pid = run[w].pid)
        /\ (run[w].pc = "index" /\ Success(run'[w]))
            => Len(vdb'[create_collection_name(run'[w].pid)].points)
                    >= run'[w].total_indexed]_vars

\* the class of a search outcome that is not a list of matches
SearchClass(existed, failed, results) ==
    IF ~existed THEN "not_found"
    ELSE IF failed THEN "upstream_failure"
    ELSE IF results.kind = "list" /\ results.items = <<>> THEN "no_results"
    ELSE "results"

\* C21 -- Distinguishable search failures: a missing collection, a failed
\* vector-store call and a search that matched nothing are answered with
\* different status or message; whenever a search has been answered, any
\* search that the same store would answer from another class gets another
\* status or another message wording.
C21_DistinguishableFailures ==
    resp.op = "search"
    => \A q \in Projects, raises \in BOOLEAN :
        LET existed == is_collection_existed(vdb, create_collection_name(q))
            other == search_endpoint(vdb, q, resp.text, resp.limit, raises)
            results == search_vector_db(vdb, q, resp.text, resp.limit, raises)
        IN  SearchClass(existed, raises /\ existed, results)
                # SearchClass(resp.existed, resp.failed, resp.results)
            => other # resp.http

\* C22 -- generate_text fails on a malformed response: a response without
\* text never makes generate_text return an absent value, so answer never
\* returns an absent answer together with a present prompt and history.
C22_NoAbsentAnswerWithPrompt ==
    resp.op = "answer"
    => ~(/\ resp.returned.generate_calls = 1
         /\ resp.returned.answer = NoText
         /\ resp.returned.full_prompt.kind = "list"
         /\ resp.returned.chat_history.kind = "list")

\* the texts that chunks c rebuild when each chunk drops the characters it
\* shares with the chunk before it (between least and most characters)
RECURSIVE Rebuilt(_, _, _)
Rebuilt(c, least, most) ==
    IF Len(c) = 1 THEN {c[1]}
    ELSE {c[1] \o SubSeq(rest, k + 1, Len(rest)) :
            <<k, rest>> \in
                {kr \in (least..most) \X Rebuilt(Tail(c), least, most) :
                    /\ kr[1] <= Len(c[1]) /\ kr[1] <= Len(c[2])
                    /\ SubSeq(c[1], Len(c[1]) - kr[1] + 1, Len(c[1]))
                            = SubSeq(c[2], 1, kr[1])}}

\* C23 -- Chunking: for every text T, chunk_size S and overlap O with
\* 0 <= O < S that the chunker accepts, no chunk is empty, every chunk has
\* at most S characters, consecutive chunks share between 1 and O
\* characters, and the chunks without the shared characters rebuild T.
C23_Chunking ==
    (resp.op = "chunk" /\ resp.chunks.kind = "list")
    => LET c == resp.chunks.items
       IN  /\ \A i \in 1..Len(c) : c[i] # <<>> /\ Len(c[i]) <= resp.chunk_size
           /\ resp.text \in Rebuilt(c, IF Len(c) > 1 THEN 1 ELSE 0,
                                     resp.chunk_overlap)

C29_GetOrCreateNeverFails ==
    \A w \in Workers :
        calls[w].op = "get_or_create" => calls[w].pc # "raised"


\* C25 -- Reset postcondition: when the reset of a push with do_reset has
\* returned, the project's collection exists, has the embedding provider's
\* dimension and holds no point, whatever the store held before and whether
\* or not the store's delete call raised.
C25_ResetPostcondition ==
    [][\A w \in Workers :
          (run[w].pc \in {"idle", "done"} /\ run'[w].pc = "fetch"
              /\ run'[w].do_reset)
          => vdb'[create_collection_name(run'[w].pid)]
                 = [exists |-> TRUE, size |-> embedding_size, points |-> <<>>]]_vars


\* C26 -- Alignment of id, vector and payload: when a page has been passed
\* to index_into_vector_db, every record written for chunk i of the page has
\* the id of chunk i, the document-mode embedding of its text and the payload
\* fields of the same chunk; the records written are those of whole batches
\* of at most batch_size records, each stored once, and every other point of
\* the collection is as it was.
C26_Alignment ==
    [][\A w \in Workers :
          (run[w].pc = "index" /\ run'[w].pc # "index")
          => LET page == run[w].chunk_list
                 name == create_collection_name(run[w].pid)
                 k == run'[w].stored - run[w].stored
                 written == [i \in 1..Len(page) |->
                     Record(page[i].id,
                            embed_text(page[i].chunk_text, "document"),
                            [chunk_project_id |-> run[w].pid,
                             chunk_text |-> page[i].chunk_text,
                             chunk_order |-> page[i].chunk_order,
                             chunk_metadata |-> page[i].chunk_metadata])]
             IN  /\ k \in 0..Len(page)
                 /\ k = Len(page) \/ k % BatchSize = 0
                 /\ \A i \in 1..k : written[i] \in Range(vdb'[name].points)
                 /\ \A r \in Range(vdb'[name].points) :
                        \/ r \in Range(vdb[name].points)
                        \/ \E i \in 1..k : r = written[i]
                 /\ Len(vdb'[name].points)
                        = Cardinality({r.id : r \in Range(vdb[name].points)}
                                        \cup {page[i].id : i \in 1..k})]_vars

\* a run has indexed a page of two chunks with different texts, no upload
\* having failed, and both records are in the collection
C26_Witness ==
    \E w \in Workers :
        /\ run[w].pc = "fetch" /\ run[w].pages = 1 /\ ~run[w].failed
        /\ run[w].total_indexed >= 2 /\ run[w].stored >= 2
        /\ \E i, j \in 1..Len(Points(run[w].pid)) :
              Points(run[w].pid)[i].payload.chunk_text
                  # Points(run[w].pid)[j].payload.chunk_text


\* C27 -- Push pagination terminates: a run's page_size is within 1..1000
\* and its start page at least 1, page_no grows by one with every indexed
\* page, a run over a chunk store nobody writes ends after an empty page,
\* and a run from page 1 over N stored chunks has then indexed
\* ceil(N / page_size) pages and N chunks.
C27_PaginationTerminates ==
    /\ [](\A w \in Workers :
            Active(w) => /\ run[w].page_size \in 1..PageSizeCap
                         /\ run[w].start >= 1
                         /\ run[w].page_no = run[w].start + run[w].pages)
    /\ [][\A w \in Workers :
            LET N == Len(SelectSeqBy(chunks, run[w].pid)) IN
            /\ (run[w].pc = "index" /\ run'[w].pc = "fetch")
               => run'[w].page_no = run[w].page_no + 1
            /\ (run[w].pc = "index" /\ run'[w].pc = "done"
                    /\ ~run'[w].disturbed)
               => /\ run[w].chunk_list = <<>>
                  /\ run[w].start = 1
                     => /\ run[w].pages
                            = (N + run[w].page_size - 1) \div run[w].page_size
                        /\ run[w].total_indexed = N]_vars
    /\ \A w \in Workers : Active(w) ~> run[w].pc = "done"

\* a run from page 1 over a store nobody wrote has ended with success after
\* more than one page
C27_Witness ==
    \E w \in Workers :
        /\ run[w].pc = "done" /\ run[w].outcome = "push_successful_200"
        /\ run[w].start = 1 /\ run[w].pages >= 2 /\ ~run[w].disturbed
        /\ run[w].total_indexed = Len(SelectSeqBy(chunks, run[w].pid))


\* C28 -- Prompt delivered as returned: when an answer call has called the
\* generation client, the user message that the backend receives holds the
\* whole full_prompt returned to the caller (every document fragment and
\* the footer with the query), and the system message it receives holds the
\* whole rendered system prompt.
C28_DeliveredPrompt ==
    (resp.op = "answer" /\ resp.returned.generate_calls = 1)
    => LET messages == resp.returned.sent.messages.items
       IN  /\ Len(messages) = 2
           /\ messages[1].role = "system"
           /\ messages[1].content = <<template("system_prompt", <<>>)>>
           /\ messages[2].role = "user"
           /\ messages[2].content = resp.returned.full_prompt.items


\* C30 -- Paging under concurrent ingestion: when a push from page 1 reports
\* success and none of its uploads failed, every chunk of the project that
\* was stored when the run started and is still stored has its point in the
\* collection, whatever processone and processall inserted or deleted while
\* the run was paging.
C30_PagingUnderIngestion ==
    [][\A w \in Workers :
          (run[w].pc = "index" /\ Success(run'[w]) /\ run[w].start = 1
              /\ ~run[w].failed)
          => \A c \in Range(SelectSeqBy(chunks', run[w].pid)) :
                c.id < run[w].next_at_start
                    => c.id \in PointIds(vdb', run[w].pid)]_vars

\* a push of more than one page is about to report success (it has fetched
\* the empty page) although chunks were inserted while it was paging, and
\* chunks stored since its start remain
C30_Witness ==
    \E w \in Workers :
        /\ run[w].pc = "index" /\ run[w].chunk_list = <<>>
        /\ run[w].start = 1 /\ ~run[w].failed
        /\ run[w].disturbed /\ run[w].pages >= 2
        /\ run[w].next_at_start < nextId
        /\ \E c \in Range(SelectSeqBy(chunks, run[w].pid)) :
              c.id < run[w].next_at_start

====
